---- MODULE Spec2Model ----
(***************************************************************************)
(* Model of the form lifecycle orchestrator of focus4 (class AutoForm,     *)
(* auto-form.tsx, the current variant with the static editingMap).         *)
(*                                                                         *)
(* Every form instance owns an edit flag, a loading flag, an error-display *)
(* flag, a source store node and a form entity (the editable shadow of the *)
(* source).  The load and save services are asynchronous collaborators: a  *)
(* call is put in flight by load()/save() and settles in a later step, in  *)
(* any order.                                                              *)
(***************************************************************************)
EXTENDS Integers, Sequences, FiniteSets, TLC

\* ---------------------------------------------------------------- bounds
NumForms == 2       \* form instances
MaxVal   == 2       \* defined field values are 1..MaxVal
MaxParam == 2       \* defined load parameters are 1..MaxParam
MaxLoads == 2       \* load service invocations per form
MaxSaves == 2       \* save service calls in flight per form
MaxDeletes == 1     \* delete service calls in flight per form
MaxSteps == 6       \* operations in one run

Forms     == 1..NumForms
Fields    == {"a", "b"}
Undef     == 0
Values    == 1..MaxVal
ParamVals == 1..MaxParam

\* The forms whose ServiceConfig carries getLoadParams and load (both optional).
LoadForms == {1}

\* The forms whose ServiceConfig carries delete (optional).
DeleteForms == {2}

\* Fields whose domain marks them required.
RequiredFields == {"a"}

\* Partial entity data, as returned by the load and save services.
PartialData == UNION {[S -> Values] : S \in SUBSET Fields}

\* The `fields` property of a rejected save: field name -> message (empty: absent).
FieldErrorMaps == UNION {[S -> {"invalid"}] : S \in SUBSET Fields}

VARIABLES
    lifecycle,          \* per form: "constructed", "mounted", "unmounted"
    editingMap,         \* AutoForm.editingMap: formId -> isEdit, for registered forms
    isEdit,             \* entity.form.isEdit
    isLoading,          \* this.isLoading
    forceErrorDisplay,  \* this.formContext.forceErrorDisplay
    source,             \* entity.sourceNode: field -> value
    entity,             \* the form entity: field -> [value, dirty]
    subscribed,         \* entity.subscribe() is in effect
    loadDisposer,       \* the load-parameter reaction is live
    params,             \* current result of getLoadParams (Undef: undefined)
    loadCount,          \* load service invocations so far (the last one has this id)
    inflightLoads,      \* ids of load calls not yet settled
    loadPrior,          \* history: for each load in flight, the source node as load() found it
    committedLoad,      \* id of the load whose response was written last (0: none)
    inflightSaves,      \* number of save calls not yet settled
    inflightDeletes,    \* number of delete calls not yet settled
    steps,              \* operations performed so far
    last                \* the operation performed by the last step and what it invoked

vars == <<lifecycle, editingMap, isEdit, isLoading, forceErrorDisplay, source, entity,
          subscribed, loadDisposer, params, loadCount, inflightLoads, loadPrior,
          committedLoad, inflightSaves, inflightDeletes, steps, last>>

\* ------------------------------------------------------- ObservableMap
MapSet(m, k, v) == [x \in (DOMAIN m) \cup {k} |-> IF x = k THEN v ELSE m[x]]

MapDelete(m, k) == [x \in (DOMAIN m) \ {k} |-> m[x]]

\* static get isOneEdit: editingMap.values().some(x => x)
isOneEdit == \E k \in DOMAIN editingMap : editingMap[k]

\* ------------------------------------------------- store node, form node
\* StoreNode.set(data): partial merge.
SetNode(node, data) == [k \in Fields |-> IF k \in DOMAIN data THEN data[k] ELSE node[k]]

\* StoreNode.clear(): every field undefined.
ClearNode(node) == [k \in Fields |-> Undef]

\* toFlatValues(entity): the plain values of the entity's fields.
toFlatValues(ent) == [k \in Fields |-> ent[k].value]

\* A form entity freshly built over a node: same values, nothing dirty.
MakeFormNode(node) == [k \in Fields |-> [value |-> node[k], dirty |-> FALSE]]

\* entity.reset(): recopy every value from the source, clear dirtiness.
ResetEntity(ent, src) == [k \in Fields |-> [value |-> src[k], dirty |-> FALSE]]

Mirror_keepDirty(ent, old, new) ==
    [k \in Fields |-> IF ent[k].dirty THEN ent[k] ELSE [value |-> new[k], dirty |-> FALSE]]

Mirror_always(ent, old, new) == MakeFormNode(new)

\* Subscription: the form entity is reinitialised from the source node at every
\* modification of the source node (a write that changes nothing is no modification).
Mirror(ent, old, new) == IF new # old THEN MakeFormNode(new) ELSE ent

\* validateNode: the error map of a node (required fields must be defined).
ErrorMap(node) == [k \in {x \in RequiredFields : node[x] = Undef} |-> "required"]

\* entity.form.isValid
isValid(ent) == DOMAIN ErrorMap(toFlatValues(ent)) = {}

\* The errors the form shows for its fields.
FormErrors(f) == ErrorMap(toFlatValues(entity[f]))

\* ------------------------------------------------------ one form's state
Services(f) ==
    [getLoadParams |-> f \in LoadForms, load |-> f \in LoadForms, save |-> TRUE,
     delete |-> f \in DeleteForms]

\* The state of form f (with the shared editingMap), before an operation runs on it.
Get(f) ==
    [lifecycle |-> lifecycle[f], editingMap |-> editingMap, isEdit |-> isEdit[f],
     isLoading |-> isLoading[f], forceErrorDisplay |-> forceErrorDisplay[f],
     source |-> source[f], entity |-> entity[f], subscribed |-> subscribed[f],
     loadDisposer |-> loadDisposer[f], params |-> params[f], loadCount |-> loadCount[f],
     inflightLoads |-> inflightLoads[f], loadPrior |-> loadPrior[f],
     committedLoad |-> committedLoad[f], inflightSaves |-> inflightSaves[f],
     inflightDeletes |-> inflightDeletes[f],
     calls |-> <<>>, sent |-> <<>>, recv |-> <<>>, seen |-> <<>>,
     discarded |-> {}, prior |-> <<>>]

\* Commits the state `st` computed by operation `op` of form f as the next state.
Put(f, op, st) ==
    /\ steps < MaxSteps
    /\ steps' = steps + 1
    /\ lifecycle' = [lifecycle EXCEPT ![f] = st.lifecycle]
    /\ editingMap' = st.editingMap
    /\ isEdit' = [isEdit EXCEPT ![f] = st.isEdit]
    /\ isLoading' = [isLoading EXCEPT ![f] = st.isLoading]
    /\ forceErrorDisplay' = [forceErrorDisplay EXCEPT ![f] = st.forceErrorDisplay]
    /\ source' = [source EXCEPT ![f] = st.source]
    /\ entity' = [entity EXCEPT ![f] = st.entity]
    /\ subscribed' = [subscribed EXCEPT ![f] = st.subscribed]
    /\ loadDisposer' = [loadDisposer EXCEPT ![f] = st.loadDisposer]
    /\ params' = [params EXCEPT ![f] = st.params]
    /\ loadCount' = [loadCount EXCEPT ![f] = st.loadCount]
    /\ inflightLoads' = [inflightLoads EXCEPT ![f] = st.inflightLoads]
    /\ loadPrior' = [loadPrior EXCEPT ![f] = st.loadPrior]
    /\ committedLoad' = [committedLoad EXCEPT ![f] = st.committedLoad]
    /\ inflightSaves' = [inflightSaves EXCEPT ![f] = st.inflightSaves]
    /\ inflightDeletes' = [inflightDeletes EXCEPT ![f] = st.inflightDeletes]
    /\ last' = [op |-> op, f |-> f, calls |-> st.calls, sent |-> st.sent,
                recv |-> st.recv, seen |-> st.seen, discarded |-> st.discarded,
                prior |-> st.prior, wasEdit |-> isEdit[f]]

\* A write to the source node, with the subscription's synchronous mirroring.
WriteSource(st, node) ==
    LET ent == IF st.subscribed THEN Mirror(st.entity, st.source, node) ELSE st.entity
    IN  [st EXCEPT !.source = node, !.entity = ent,
                   !.discarded = {k \in Fields : st.entity[k].dirty /\ ~ent[k].dirty}]

\* What an extension hook observes when it is called.
Snapshot(st, hook) ==
    [hook |-> hook, isLoading |-> st.isLoading, isEdit |-> st.isEdit, source |-> st.source]

Called(st, name) == [st EXCEPT !.calls = Append(@, name)]

\* @classAutorun: the autorun lives from componentWillMount to componentWillUnmount.
classAutorun(st) == st.lifecycle = "mounted"

\* updateApplicationStore, rerun as soon as entity.form.isEdit changes.
updateApplicationStore(st, f) ==
    IF classAutorun(st) THEN [st EXCEPT !.editingMap = MapSet(@, f, st.isEdit)] ELSE st

\* --------------------------------------------------------------- load()
load_noParamsTest(st, f) ==
    LET s0 == Called(st, "load")
        svc == Services(f)
    IN  IF svc.getLoadParams /\ svc.load
        THEN LET s1 == [s0 EXCEPT !.isLoading = TRUE]
                 s2 == Called(WriteSource(s1, ClearNode(s1.source)), "sourceNode.clear")
                 s3 == [s2 EXCEPT !.loadCount = @ + 1,
                                  !.inflightLoads = @ \cup {s2.loadCount + 1},
                                  !.loadPrior = MapSet(@, s2.loadCount + 1, s0.source)]
             IN  Called(s3, "services.load")
        ELSE s0

load_noClear(st, f) ==
    LET s0 == Called(st, "load")
        svc == Services(f)
    IN  IF svc.getLoadParams /\ svc.load /\ s0.params # Undef
        THEN LET s1 == [s0 EXCEPT !.isLoading = TRUE]
                 s3 == [s1 EXCEPT !.loadCount = @ + 1,
                                  !.inflightLoads = @ \cup {s1.loadCount + 1},
                                  !.loadPrior = MapSet(@, s1.loadCount + 1, s0.source)]
             IN  Called(s3, "services.load")
        ELSE s0

load(st, f) ==
    LET s0 == Called(st, "load")
        svc == Services(f)
    IN  IF svc.getLoadParams /\ svc.load /\ s0.params # Undef
        THEN LET s1 == [s0 EXCEPT !.isLoading = TRUE]
                 s2 == Called(WriteSource(s1, ClearNode(s1.source)), "sourceNode.clear")
                 s3 == [s2 EXCEPT !.loadCount = @ + 1,
                                  !.inflightLoads = @ \cup {s2.loadCount + 1},
                                  !.loadPrior = MapSet(@, s2.loadCount + 1, s0.source)]
             IN  Called(s3, "services.load")
        ELSE s0

\* ------------------------------------------------------------- lifecycle
\* formInit: the load reaction exists iff getLoadParams is configured.
formInit(st, f) == [st EXCEPT !.loadDisposer = Services(f).getLoadParams]

componentWillMount_registerFalse(st, f) ==
    LET s1 == formInit(st, f)
        s2 == [s1 EXCEPT !.editingMap = MapSet(@, f, FALSE), !.lifecycle = "mounted"]
        s3 == [s2 EXCEPT !.subscribed = TRUE]
    IN  load(s3, f)

componentWillMount(st, f) ==
    LET s1 == formInit(st, f)
        s2 == [s1 EXCEPT !.editingMap = MapSet(@, f, s1.isEdit), !.lifecycle = "mounted"]
        s3 == [s2 EXCEPT !.subscribed = TRUE]
    IN  load(s3, f)

Mount(f) ==
    /\ lifecycle[f] = "constructed"
    /\ Put(f, "componentWillMount", componentWillMount(Get(f), f))

componentWillUnmount_keepEntry(st, f) ==
    [st EXCEPT !.subscribed = FALSE, !.loadDisposer = FALSE, !.lifecycle = "unmounted"]

componentWillUnmount_keepReaction(st, f) ==
    [st EXCEPT !.editingMap = MapDelete(@, f), !.subscribed = FALSE,
               !.lifecycle = "unmounted"]

componentWillUnmount(st, f) ==
    LET s1 == [st EXCEPT !.editingMap = MapDelete(@, f)]
        s2 == [s1 EXCEPT !.subscribed = FALSE]
    IN  [s2 EXCEPT !.loadDisposer = FALSE, !.lifecycle = "unmounted"]

Unmount(f) ==
    /\ lifecycle[f] = "mounted"
    /\ Put(f, "componentWillUnmount", componentWillUnmount(Get(f), f))

\* ------------------------------------------------------------ toggleEdit
toggleEdit_noReset(st, f, edit) ==
    updateApplicationStore([st EXCEPT !.isEdit = edit], f)

toggleEdit_abort(st, f, edit) ==
    LET s1 == [st EXCEPT !.isEdit = edit]
        s2 == IF ~edit
              THEN Called([s1 EXCEPT !.entity = ResetEntity(@, s1.source),
                                     !.discarded = {k \in Fields : s1.entity[k].dirty},
                                     !.inflightSaves = 0, !.inflightLoads = {},
                                     !.loadPrior = [id \in {} |-> 0]],
                          "entity.reset")
              ELSE s1
    IN  updateApplicationStore(s2, f)

toggleEdit_clearFlags(st, f, edit) ==
    LET s1 == [st EXCEPT !.isEdit = edit]
        s2 == IF ~edit
              THEN Called([s1 EXCEPT !.entity = [k \in Fields |-> [@[k] EXCEPT !.dirty = FALSE]],
                                     !.discarded = {k \in Fields : s1.entity[k].dirty}],
                          "entity.reset")
              ELSE s1
    IN  updateApplicationStore(s2, f)

toggleEdit_resetAlways(st, f, edit) ==
    LET s1 == [st EXCEPT !.isEdit = edit]
        s2 == Called([s1 EXCEPT !.entity = ResetEntity(@, s1.source),
                                !.discarded = {k \in Fields : s1.entity[k].dirty}],
                     "entity.reset")
    IN  updateApplicationStore(s2, f)

toggleEdit_stopLoading(st, f, edit) ==
    LET s1 == [st EXCEPT !.isEdit = edit]
        s2 == IF ~edit
              THEN Called([s1 EXCEPT !.entity = ResetEntity(@, s1.source),
                                     !.discarded = {k \in Fields : s1.entity[k].dirty},
                                     !.isLoading = FALSE],
                          "entity.reset")
              ELSE s1
    IN  updateApplicationStore(s2, f)

toggleEdit(st, f, edit) ==
    LET s1 == [st EXCEPT !.isEdit = edit]
        s2 == IF ~edit
              THEN Called([s1 EXCEPT !.entity = ResetEntity(@, s1.source),
                                     !.discarded = {k \in Fields : s1.entity[k].dirty}],
                          "entity.reset")
              ELSE s1
    IN  updateApplicationStore(s2, f)

\* toggleEdit has no precondition: it can be called on a form that is not mounted yet,
\* is mounted, or was unmounted.
ToggleEdit(f, edit) ==
    /\ Put(f, IF edit THEN "toggleEdit(true)" ELSE "toggleEdit(false)",
           toggleEdit(Get(f), f, edit))

\* fieldFor's onChange: field.value = value, a local modification of the form entity.
onChange(st, k, v) == [st EXCEPT !.entity[k] = [value |-> v, dirty |-> TRUE]]

\* User input reaches the fields of a rendered (mounted) form only.
EditField(f, k, v) ==
    /\ lifecycle[f] = "mounted"
    /\ entity[f][k].value # v
    /\ Put(f, "onChange", onChange(Get(f), k, v))

\* The owner of the store node (a page, another component) writes one of its fields
\* while the form is displayed.
StoreSet(f, k, v) ==
    /\ lifecycle[f] = "mounted"
    /\ LET data == [x \in {k} |-> v]
           s0 == [Get(f) EXCEPT !.recv = <<data>>]
       IN  Put(f, "storeSet", WriteSource(s0, SetNode(s0.source, data)))

\* ------------------------------------------------------- load settlement
afterLoad_replace(st, f, id, data) ==
    LET s1 == Called(WriteSource(st, SetNode(ClearNode(st.source), data)), "sourceNode.set")
        s2 == [s1 EXCEPT !.isLoading = FALSE, !.committedLoad = id]
        s3 == Called(s2, "onFormLoaded")
    IN  [s3 EXCEPT !.seen = Append(@, Snapshot(s3, "onFormLoaded"))]

afterLoad_hookFirst(st, f, id, data) ==
    LET s0 == Called(st, "onFormLoaded")
        s1 == [s0 EXCEPT !.seen = Append(@, Snapshot(s0, "onFormLoaded"))]
        s2 == Called(WriteSource(s1, SetNode(s1.source, data)), "sourceNode.set")
    IN  [s2 EXCEPT !.isLoading = FALSE, !.committedLoad = id]

afterLoad_ifMounted(st, f, id, data) ==
    IF st.lifecycle = "mounted"
    THEN LET s1 == Called(WriteSource(st, SetNode(st.source, data)), "sourceNode.set")
             s2 == [s1 EXCEPT !.isLoading = FALSE, !.committedLoad = id]
             s3 == Called(s2, "onFormLoaded")
         IN  [s3 EXCEPT !.seen = Append(@, Snapshot(s3, "onFormLoaded"))]
    ELSE st

\* The continuation of load() after the await: afterLoad, then onFormLoaded.
afterLoad(st, f, id, data) ==
    LET s1 == Called(WriteSource(st, SetNode(st.source, data)), "sourceNode.set")
        s2 == [s1 EXCEPT !.isLoading = FALSE, !.committedLoad = id]
        s3 == Called(s2, "onFormLoaded")
    IN  [s3 EXCEPT !.seen = Append(@, Snapshot(s3, "onFormLoaded"))]

LoadResolve(f, id, data) ==
    /\ id \in inflightLoads[f]
    /\ LET s0 == [Get(f) EXCEPT !.inflightLoads = @ \ {id}, !.recv = <<data>>,
                                !.loadPrior = MapDelete(@, id),
                                !.prior = <<loadPrior[f][id]>>]
       IN  Put(f, "loadResolved", afterLoad(s0, f, id, data))

\* The load promise rejects: load() has no handler, nothing of the form runs.
loadRejected(st, f, id) == st

LoadReject(f, id) ==
    /\ id \in inflightLoads[f]
    /\ LET s0 == [Get(f) EXCEPT !.inflightLoads = @ \ {id},
                                !.loadPrior = MapDelete(@, id),
                                !.prior = <<loadPrior[f][id]>>]
       IN  Put(f, "loadRejected", loadRejected(s0, f, id))

\* ------------------------------------------------------ the load reaction
compareIdentity(a, b) == a.id = b.id

\* The comparer of the load reaction: {compareStructural: true}.
compareStructural(a, b) == a.val = b.val

\* getLoadParams is recomputed (it builds a new array each time) and load() runs when
\* the comparer sees a change.
loadReaction(st, f, v) ==
    LET old == [id |-> 0, val |-> st.params]
        new == [id |-> 1, val |-> v]
        s1 == [st EXCEPT !.params = v]
    IN  IF st.loadDisposer /\ ~compareStructural(old, new) THEN load(s1, f) ELSE s1

ParamsChange(f, v) ==
    /\ Services(f).getLoadParams
    /\ loadCount[f] < MaxLoads
    /\ Put(f, "paramsChange", loadReaction(Get(f), f, v))

\* ----------------------------------------------------------------- save
saveGuard_always(st) == TRUE

\* !this.entity.form || this.entity.form.isValid (a form entity always has its form facet)
saveGuard(st) == isValid(st.entity)

save_loadingFirst(st, f) ==
    LET s1 == [Called(st, "save") EXCEPT !.forceErrorDisplay = TRUE, !.isLoading = TRUE]
    IN  IF saveGuard(s1)
        THEN LET s2 == [s1 EXCEPT !.inflightSaves = @ + 1,
                                  !.sent = <<toFlatValues(s1.entity)>>]
             IN  Called(s2, "services.save")
        ELSE s1

\* The synchronous part of save(), up to the await.
save(st, f) ==
    LET s1 == [Called(st, "save") EXCEPT !.forceErrorDisplay = TRUE]
    IN  IF saveGuard(s1)
        THEN LET s2 == [s1 EXCEPT !.isLoading = TRUE, !.inflightSaves = @ + 1,
                                  !.sent = <<toFlatValues(s1.entity)>>]
             IN  Called(s2, "services.save")
        ELSE s1

\* The form's onSubmit, or the panel's save button, of a rendered form.
Save(f) ==
    /\ lifecycle[f] = "mounted"
    /\ inflightSaves[f] < MaxSaves
    /\ Put(f, "save", save(Get(f), f))

afterSave_hookFirst(st, f, data) ==
    LET s0 == Called(st, "onFormSaved")
        s1 == [s0 EXCEPT !.seen = Append(@, Snapshot(s0, "onFormSaved"))]
        s2 == [s1 EXCEPT !.isLoading = FALSE, !.isEdit = FALSE]
        s3 == Called(WriteSource(s2, SetNode(s2.source, data)), "sourceNode.set")
    IN  updateApplicationStore(s3, f)

afterSave_registers(st, f, data) ==
    LET s1 == [st EXCEPT !.isLoading = FALSE]
        s2 == [s1 EXCEPT !.isEdit = FALSE, !.editingMap = MapSet(@, f, FALSE)]
        s3 == Called(WriteSource(s2, SetNode(s2.source, data)), "sourceNode.set")
        s4 == updateApplicationStore(s3, f)
        s5 == Called(s4, "onFormSaved")
    IN  [s5 EXCEPT !.seen = Append(@, Snapshot(s5, "onFormSaved"))]

afterSave_hideErrors(st, f, data) ==
    LET s1 == [st EXCEPT !.isLoading = FALSE, !.forceErrorDisplay = FALSE]
        s2 == [s1 EXCEPT !.isEdit = FALSE]
        s3 == Called(WriteSource(s2, SetNode(s2.source, data)), "sourceNode.set")
        s4 == updateApplicationStore(s3, f)
        s5 == Called(s4, "onFormSaved")
    IN  [s5 EXCEPT !.seen = Append(@, Snapshot(s5, "onFormSaved"))]

\* The continuation of save() after the await: afterSave, then onFormSaved.
afterSave(st, f, data) ==
    LET s1 == [st EXCEPT !.isLoading = FALSE]
        s2 == [s1 EXCEPT !.isEdit = FALSE]
        s3 == Called(WriteSource(s2, SetNode(s2.source, data)), "sourceNode.set")
        s4 == updateApplicationStore(s3, f)
        s5 == Called(s4, "onFormSaved")
    IN  [s5 EXCEPT !.seen = Append(@, Snapshot(s5, "onFormSaved"))]

SaveResolve(f, data) ==
    /\ inflightSaves[f] > 0
    /\ LET s0 == [Get(f) EXCEPT !.inflightSaves = @ - 1, !.recv = <<data>>]
       IN  Put(f, "saveResolved", afterSave(s0, f, data))

saveCatch_leaveEdit(st, f, e) == [st EXCEPT !.isLoading = FALSE, !.isEdit = FALSE]

\* The catch block of save(): isLoading is reset, the rejection e is dropped.
saveCatch(st, f, e) == [st EXCEPT !.isLoading = FALSE]

SaveReject(f, e) ==
    /\ inflightSaves[f] > 0
    /\ LET s0 == [Get(f) EXCEPT !.inflightSaves = @ - 1, !.recv = <<e>>]
       IN  Put(f, "saveRejected", saveCatch(s0, f, e))

\* --------------------------------------------------------------- delete
\* delete() is a method of the earlier revision of AutoForm only; it runs over the
\* same form state, its storeData being the source node of the form entity.
\* The synchronous part of delete(), up to the await.
delete(st, f) ==
    LET s0 == Called(st, "delete")
    IN  IF Services(f).delete
        THEN LET s1 == [s0 EXCEPT !.isLoading = TRUE, !.inflightDeletes = @ + 1,
                                  !.sent = <<toFlatValues(s0.entity)>>]
             IN  Called(s1, "services.delete")
        ELSE s0

Delete(f) ==
    /\ lifecycle[f] = "mounted"
    /\ inflightDeletes[f] < MaxDeletes
    /\ Put(f, "delete", delete(Get(f), f))

afterDelete_noClear(st, f) ==
    LET s1 == Called(st, "messageStore.addSuccessMessage")
        s2 == [s1 EXCEPT !.isLoading = FALSE]
        s4 == Called(s2, "onFormDeleted")
    IN  [s4 EXCEPT !.seen = Append(@, Snapshot(s4, "onFormDeleted"))]

\* The continuation of delete() after the await: the success message, then one action
\* that resets isLoading, clears storeData and calls onFormDeleted.
afterDelete(st, f) ==
    LET s1 == Called(st, "messageStore.addSuccessMessage")
        s2 == [s1 EXCEPT !.isLoading = FALSE]
        s3 == Called(WriteSource(s2, ClearNode(s2.source)), "storeData.clear")
        s4 == Called(s3, "onFormDeleted")
    IN  [s4 EXCEPT !.seen = Append(@, Snapshot(s4, "onFormDeleted"))]

DeleteResolve(f) ==
    /\ inflightDeletes[f] > 0
    /\ LET s0 == [Get(f) EXCEPT !.inflightDeletes = @ - 1, !.prior = <<source[f]>>]
       IN  Put(f, "deleteResolved", afterDelete(s0, f))

\* The delete promise rejects: delete() has no handler, nothing of the form runs.
deleteRejected(st, f) == st

DeleteReject(f) ==
    /\ inflightDeletes[f] > 0
    /\ LET s0 == [Get(f) EXCEPT !.inflightDeletes = @ - 1, !.prior = <<source[f]>>]
       IN  Put(f, "deleteRejected", deleteRejected(s0, f))

Init ==
    /\ lifecycle = [f \in Forms |-> "constructed"]
    /\ editingMap = [f \in {} |-> FALSE]
    /\ isEdit = [f \in Forms |-> FALSE]
    /\ isLoading = [f \in Forms |-> FALSE]
    /\ forceErrorDisplay = [f \in Forms |-> FALSE]
    /\ source = [f \in Forms |-> [k \in Fields |-> Undef]]
    /\ entity = [f \in Forms |-> MakeFormNode(source[f])]
    /\ subscribed = [f \in Forms |-> FALSE]
    /\ loadDisposer = [f \in Forms |-> FALSE]
    /\ params = [f \in Forms |-> Undef]
    /\ loadCount = [f \in Forms |-> 0]
    /\ inflightLoads = [f \in Forms |-> {}]
    /\ loadPrior = [f \in Forms |-> [id \in {} |-> 0]]
    /\ committedLoad = [f \in Forms |-> 0]
    /\ inflightSaves = [f \in Forms |-> 0]
    /\ inflightDeletes = [f \in Forms |-> 0]
    /\ steps = 0
    /\ last = [op |-> "init", f |-> 0, calls |-> <<>>, sent |-> <<>>, recv |-> <<>>,
               seen |-> <<>>, discarded |-> {}, prior |-> <<>>, wasEdit |-> FALSE]

Next ==
    \/ \E f \in Forms : Mount(f)
    \/ \E f \in Forms : Unmount(f)
    \/ \E f \in Forms, edit \in BOOLEAN : ToggleEdit(f, edit)
    \/ \E f \in Forms, k \in Fields, v \in {Undef} \cup Values : EditField(f, k, v)
    \/ \E f \in Forms, k \in Fields, v \in Values : StoreSet(f, k, v)
    \/ \E f \in Forms, v \in {Undef} \cup ParamVals : ParamsChange(f, v)
    \/ \E f \in Forms, id \in 1..MaxLoads, data \in PartialData : LoadResolve(f, id, data)
    \/ \E f \in Forms, id \in 1..MaxLoads : LoadReject(f, id)
    \/ \E f \in Forms : Save(f)
    \/ \E f \in Forms, data \in PartialData : SaveResolve(f, data)
    \/ \E f \in Forms, e \in FieldErrorMaps : SaveReject(f, e)
    \/ \E f \in Forms : Delete(f)
    \/ \E f \in Forms : DeleteResolve(f)
    \/ \E f \in Forms : DeleteReject(f)

Spec == Init /\ [][Next]_vars

\* ============================================================ properties
\* How many times `name` was invoked during the last operation.
Count(calls, name) == Cardinality({i \in DOMAIN calls : calls[i] = name})

\* C1 - Save gating: a save() on a form whose validation reports an error does not
\* invoke the save service; a save() on a form without errors invokes it exactly once.
SaveGating ==
    [][\A f \in Forms :
        (last'.op = "save" /\ last'.f = f) =>
            /\ Count(last'.calls, "services.save") =
                   (IF DOMAIN ErrorMap(toFlatValues(entity[f])) = {} THEN 1 ELSE 0)
            /\ inflightSaves'[f] - inflightSaves[f] = Count(last'.calls, "services.save")]_vars

\* One form's save is in flight (it was valid), another form's save() was just gated.
SaveGatingWitness ==
    \E f, g \in Forms :
        /\ last.op = "save" /\ last.f = f /\ ~isValid(entity[f])
        /\ inflightSaves[f] = 0 /\ inflightSaves[g] = 1

\* C2 - save() is not re-entrant: a save() called while isLoading is true does not
\* invoke the save service and leaves isLoading and the edit flag as they were.
SaveNotReentrant ==
    [][\A f \in Forms :
        (last'.op = "save" /\ last'.f = f /\ isLoading[f]) =>
            /\ inflightSaves'[f] = inflightSaves[f]
            /\ isLoading'[f] = isLoading[f]
            /\ isEdit'[f] = isEdit[f]]_vars

\* C3 - Latest load wins: once the response of the most recently initiated load has
\* been written to the source node, no response of an earlier load overwrites it.
LatestLoadWins ==
    [][\A f \in Forms :
        (committedLoad[f] = loadCount[f] /\ loadCount'[f] = loadCount[f]) =>
            committedLoad'[f] = loadCount[f]]_vars

\* C4 - Load failure cleanup: when the load promise rejects, isLoading is false.
LoadFailureCleanup ==
    last.op = "loadRejected" => ~isLoading[last.f]

\* C5 - Save failure recovery: the rejection of a save resets isLoading and, like the
\* save() call itself, leaves the edit flag, the form entity and the source node as
\* they were; the on-saved hook is not fired.
SaveFailureRecovery ==
    [][\A f \in Forms :
        /\ (last'.op = "saveRejected" /\ last'.f = f) =>
              /\ ~isLoading'[f]
              /\ isEdit'[f] = isEdit[f]
              /\ entity'[f] = entity[f]
              /\ source'[f] = source[f]
              /\ editingMap' = editingMap
              /\ Count(last'.calls, "onFormSaved") = 0 /\ last'.seen = <<>>
        /\ (last'.op = "save" /\ last'.f = f) =>
              /\ isEdit'[f] = isEdit[f]
              /\ entity'[f] = entity[f]
              /\ source'[f] = source[f]]_vars

\* A save was rejected on a form in edit mode with a locally modified field.
SaveFailureRecoveryWitness ==
    /\ last.op = "saveRejected"
    /\ isEdit[last.f] /\ ~isLoading[last.f]
    /\ \E k \in Fields : entity[last.f][k].dirty

\* C6 - Server field errors: after a save rejected with a `fields` map, the errors the
\* form shows contain every entry of that map.
ServerFieldErrors ==
    last.op = "saveRejected" =>
        \A k \in DOMAIN last.recv[1] :
            /\ k \in DOMAIN FormErrors(last.f)
            /\ FormErrors(last.f)[k] = last.recv[1][k]

\* C7 - Save success: when a save resolves with data D, D has been set onto the source
\* node, the edit flag and isLoading are false, and onFormSaved has fired exactly once,
\* after these changes (it observes them).
SaveSuccess ==
    last.op = "saveResolved" =>
        LET f == last.f
            D == last.recv[1]
        IN  /\ \A k \in DOMAIN D : source[f][k] = D[k]
            /\ ~isEdit[f] /\ ~isLoading[f]
            /\ Count(last.calls, "onFormSaved") = 1
            /\ last.calls = <<"sourceNode.set", "onFormSaved">>
            /\ last.seen = <<[hook |-> "onFormSaved", isLoading |-> FALSE,
                              isEdit |-> FALSE, source |-> source[f]]>>

\* The save of a mounted form resolved with data for every field.
SaveSuccessWitness ==
    /\ last.op = "saveResolved"
    /\ DOMAIN last.recv[1] = Fields
    /\ last.f \in DOMAIN editingMap /\ ~editingMap[last.f]
    /\ toFlatValues(entity[last.f]) = source[last.f]

\* C8 - Registry consistency: isOneEdit is true exactly when some mounted form has its
\* edit flag set.
RegistryConsistency ==
    isOneEdit <=> \E f \in Forms : lifecycle[f] = "mounted" /\ isEdit[f]

\* A form was unmounted in edit mode while another form is mounted and not editing.
RegistryConsistencyWitness ==
    \E f, g \in Forms :
        /\ lifecycle[f] = "unmounted" /\ isEdit[f]
        /\ lifecycle[g] = "mounted" /\ ~isEdit[g]
        /\ ~isOneEdit

\* C9 - Cancel discards edits: after toggleEdit(false) the edit flag is false, every
\* field of the form entity equals the source node's value and is clean, and the
\* form's registry entry (which a mounted form has) is false.
CancelDiscardsEdits ==
    last.op = "toggleEdit(false)" =>
        LET f == last.f
        IN  /\ ~isEdit[f]
            /\ \A k \in Fields : entity[f][k] = [value |-> source[f][k], dirty |-> FALSE]
            /\ lifecycle[f] = "mounted" => f \in DOMAIN editingMap
            /\ f \in DOMAIN editingMap => ~editingMap[f]

\* toggleEdit(false) on a mounted form whose save is in flight discarded the local
\* modification of every field.
CancelDiscardsEditsWitness ==
    /\ last.op = "toggleEdit(false)"
    /\ last.discarded = Fields
    /\ lifecycle[last.f] = "mounted"
    /\ inflightSaves[last.f] > 0
    /\ toFlatValues(entity[last.f]) = source[last.f]

\* C10 - Parameter-change reaction: while the form is mounted, a recomputation of
\* getLoadParams triggers load() exactly once when the result is structurally
\* different, and not at all when it is structurally equal.
ParamsReaction ==
    [][\A f \in Forms :
        (last'.op = "paramsChange" /\ last'.f = f /\ lifecycle[f] = "mounted") =>
            Count(last'.calls, "load") = (IF params'[f] # params[f] THEN 1 ELSE 0)]_vars

\* A mounted form whose parameters are defined and whose load is in flight saw a
\* recomputation that triggered nothing.
ParamsReactionWitness ==
    /\ last.op = "paramsChange"
    /\ lifecycle[last.f] = "mounted"
    /\ last.calls = <<>>
    /\ params[last.f] # Undef
    /\ inflightLoads[last.f] # {}

\* C11 - load() is a no-op when there is nothing to load: when load() runs while
\* getLoadParams yields undefined, or the form has no load service or no getLoadParams,
\* the load service is not invoked, the source node is neither cleared nor modified,
\* isLoading is unchanged and onFormLoaded is not fired.
LoadNoOp ==
    [][\A f \in Forms :
        (/\ last'.f = f /\ Count(last'.calls, "load") > 0
         /\ (params'[f] = Undef \/ ~Services(f).load \/ ~Services(f).getLoadParams)) =>
            /\ Count(last'.calls, "services.load") = 0
            /\ Count(last'.calls, "sourceNode.clear") = 0
            /\ Count(last'.calls, "onFormLoaded") = 0 /\ last'.seen = <<>>
            /\ inflightLoads'[f] = inflightLoads[f] /\ loadCount'[f] = loadCount[f]
            /\ source'[f] = source[f] /\ entity'[f] = entity[f]
            /\ isLoading'[f] = isLoading[f]]_vars

\* The reaction ran load() on a mounted form whose parameters became undefined while
\* the source node held data: the data is still there.
LoadNoOpWitness ==
    /\ last.op = "paramsChange"
    /\ last.calls = <<"load">>
    /\ lifecycle[last.f] = "mounted"
    /\ params[last.f] = Undef
    /\ \E k \in Fields : source[last.f][k] # Undef

\* C12 - Cancel does not abort in-flight calls: toggleEdit(false) leaves the load and
\* save calls of the form in flight, and a call that resolves, after a cancel or not,
\* has its data set onto the source node.
CancelKeepsCalls ==
    [][\A f \in Forms :
        /\ (last'.op = "toggleEdit(false)" /\ last'.f = f) =>
              /\ inflightLoads'[f] = inflightLoads[f]
              /\ inflightSaves'[f] = inflightSaves[f]
        /\ (last'.op \in {"loadResolved", "saveResolved"} /\ last'.f = f) =>
              /\ Count(last'.calls, "sourceNode.set") = 1
              /\ \A k \in DOMAIN last'.recv[1] : source'[f][k] = last'.recv[1][k]]_vars

\* A cancel discarded a local edit while a load and a save of the form were in flight:
\* both are still in flight.
CancelKeepsCallsWitness ==
    /\ last.op = "toggleEdit(false)"
    /\ last.discarded # {}
    /\ inflightLoads[last.f] # {}
    /\ inflightSaves[last.f] > 0

\* C13 - Unmount teardown: an unmounted form has no registry entry, its form entity is
\* unsubscribed and its load reaction is disposed: a later change of getLoadParams'
\* result triggers no load().
UnmountTeardown ==
    [][\A f \in Forms :
        lifecycle'[f] = "unmounted" =>
            /\ f \notin DOMAIN editingMap'
            /\ ~subscribed'[f]
            /\ ~loadDisposer'[f]
            /\ (last'.op = "paramsChange" /\ last'.f = f) =>
                  /\ last'.calls = <<>>
                  /\ loadCount'[f] = loadCount[f] /\ inflightLoads'[f] = inflightLoads[f]]_vars

\* The parameters of an unmounted form, undefined while it was mounted (it never
\* loaded), became defined.
UnmountTeardownWitness ==
    /\ last.op = "paramsChange"
    /\ lifecycle[last.f] = "unmounted"
    /\ params[last.f] # Undef
    /\ loadCount[last.f] = 0

\* C14 (as stated) - Prior values survive a load failure: when the load service
\* rejects, the source node holds the values it held before that load() was called.
PriorValuesSurvive ==
    last.op = "loadRejected" => source[last.f] = last.prior[1]

\* C14 (amended) - load() clears the source node before it calls the load service,
\* and the rejection of the load modifies neither the source node nor the form entity:
\* the values held before load() are not restored.
LoadClearsRejectKeeps ==
    [][\A f \in Forms :
        /\ (last'.f = f /\ Count(last'.calls, "services.load") > 0) =>
              /\ Count(last'.calls, "sourceNode.clear") = 1
              /\ source'[f] = ClearNode(source[f])
        /\ (last'.op = "loadRejected" /\ last'.f = f) =>
              /\ source'[f] = source[f]
              /\ entity'[f] = entity[f]
              /\ Count(last'.calls, "sourceNode.set") = 0]_vars

\* A load rejected whose load() had found values in the source node: the source node
\* is empty.
LoadClearsRejectKeepsWitness ==
    /\ last.op = "loadRejected"
    /\ \E k \in Fields : last.prior[1][k] # Undef
    /\ source[last.f] = ClearNode(source[last.f])

\* C15 - Registry membership: the keys of editingMap are exactly the mounted forms; a
\* save or load settling after the unmount, whatever it does to the edit flag, does not
\* re-create the entry.
RegistryMembership ==
    DOMAIN editingMap = {f \in Forms : lifecycle[f] = "mounted"}

\* A save started in edit mode resolved after the unmount of its form and cleared the
\* edit flag, while another form is mounted: the unmounted form has no entry.
RegistryMembershipWitness ==
    /\ last.op = "saveResolved"
    /\ lifecycle[last.f] = "unmounted"
    /\ last.wasEdit /\ ~isEdit[last.f]
    /\ last.f \notin DOMAIN editingMap

\* C16 (as stated) - Registration at construction: a constructed, not yet mounted form
\* has a registry entry with value false.
RegistrationAtConstruction ==
    \A f \in Forms :
        lifecycle[f] = "constructed" => f \in DOMAIN editingMap /\ ~editingMap[f]

\* C16 (amended) - Registration at mount: a constructed, not yet mounted form has no
\* registry entry; componentWillMount adds the entry of the form, with the value the
\* edit flag has at that time.
RegistrationAtMount ==
    [][\A f \in Forms :
        /\ lifecycle[f] = "constructed" => f \notin DOMAIN editingMap
        /\ lifecycle'[f] = "constructed" => f \notin DOMAIN editingMap'
        /\ (last'.op = "componentWillMount" /\ last'.f = f) =>
              /\ f \in DOMAIN editingMap'
              /\ editingMap'[f] = isEdit[f]]_vars

\* A form whose edit flag was set before it mounted has just mounted: its entry is true.
RegistrationAtMountWitness ==
    /\ last.op = "componentWillMount"
    /\ last.wasEdit
    /\ last.f \in DOMAIN editingMap
    /\ editingMap[last.f]

\* C17 - Realignment after save: after a successful save() of a mounted form whose
\* form entity had locally edited fields, every field of the form entity equals the
\* source node's value and no field is dirty.
RealignAfterSave ==
    [][\A f \in Forms :
        (/\ last'.op = "saveResolved" /\ last'.f = f
         /\ lifecycle[f] = "mounted"
         /\ \E k \in Fields : entity[f][k].dirty) =>
            \A k \in Fields : entity'[f][k] = [value |-> source'[f][k], dirty |-> FALSE]]_vars

GatedSaveFrame ==
    [][\A f \in Forms :
        (last'.op = "save" /\ last'.f = f /\ ~isValid(entity[f])) =>
            /\ forceErrorDisplay'[f]
            /\ isLoading'[f] = isLoading[f]
            /\ isEdit'[f] = isEdit[f]
            /\ editingMap' = editingMap
            /\ entity'[f] = entity[f]
            /\ source'[f] = source[f]
            /\ inflightSaves'[f] = inflightSaves[f]
            /\ last'.calls = <<"save">> /\ last'.seen = <<>>]_vars

\* The first save() of a form in edit mode with a local modification and a missing
\* required field was gated: the modification and the edit mode are still there.
GatedSaveFrameWitness ==
    /\ last.op = "save"
    /\ last.calls = <<"save">>
    /\ forceErrorDisplay[last.f]
    /\ isEdit[last.f] /\ ~isLoading[last.f]
    /\ entity[last.f]["b"].dirty
    /\ ~isValid(entity[last.f])

\* C25 - Load step ordering: a load() that starts a load sets isLoading and clears the
\* source node before it calls the load service; the resolution of the only load in
\* flight sets the result onto the source node and resets isLoading in the same step,
\* and onFormLoaded runs once, after that, observing isLoading false and the data.
LoadStepOrdering ==
    [][\A f \in Forms :
        /\ (last'.f = f /\ Count(last'.calls, "services.load") > 0) =>
              /\ isLoading'[f]
              /\ \E i, j \in 1..Len(last'.calls) :
                    /\ i < j
                    /\ last'.calls[i] = "sourceNode.clear"
                    /\ last'.calls[j] = "services.load"
        /\ (last'.op = "loadResolved" /\ last'.f = f /\ inflightLoads'[f] = {}) =>
              /\ ~isLoading'[f]
              /\ last'.calls = <<"sourceNode.set", "onFormLoaded">>
              /\ Len(last'.seen) = 1
              /\ ~last'.seen[1].isLoading
              /\ last'.seen[1].source = source'[f]
              /\ \A k \in DOMAIN last'.recv[1] : last'.seen[1].source[k] = last'.recv[1][k]]_vars

\* The only load of a form resolved with a value for every field: the hook saw it.
LoadStepOrderingWitness ==
    /\ last.op = "loadResolved"
    /\ loadCount[last.f] = 1 /\ inflightLoads[last.f] = {}
    /\ DOMAIN last.recv[1] = Fields
    /\ Len(last.seen) = 1
    /\ last.seen[1].source = last.recv[1]
    /\ ~last.seen[1].isLoading

\* C26 - Entering edit mode is side-effect-free: toggleEdit(true) sets the edit flag
\* and the registry entry of the form (when it has one) and changes nothing else: the
\* form entity, the source node, isLoading and forceErrorDisplay are as before, no
\* service is called.
EnterEditFrame ==
    [][\A f \in Forms :
        (last'.op = "toggleEdit(true)" /\ last'.f = f) =>
            /\ isEdit'[f]
            /\ DOMAIN editingMap' = DOMAIN editingMap
            /\ \A g \in DOMAIN editingMap : editingMap'[g] = IF g = f THEN TRUE ELSE editingMap[g]
            /\ entity'[f] = entity[f]
            /\ source'[f] = source[f]
            /\ isLoading'[f] = isLoading[f]
            /\ forceErrorDisplay'[f] = forceErrorDisplay[f]
            /\ inflightLoads'[f] = inflightLoads[f] /\ inflightSaves'[f] = inflightSaves[f]
            /\ last'.calls = <<>>]_vars

\* A mounted form that was not in edit mode and has a local modification entered edit
\* mode: the modification is still there and the registry entry is true.
EnterEditFrameWitness ==
    /\ last.op = "toggleEdit(true)"
    /\ ~last.wasEdit
    /\ lifecycle[last.f] = "mounted"
    /\ editingMap[last.f]
    /\ \E k \in Fields : entity[last.f][k].dirty /\ entity[last.f][k].value # source[last.f][k]

\* C27 - isLoading covers every in-flight call: whenever a load or a save of a form
\* has been started and has not settled, isLoading of that form is true.
LoadingCoversCalls ==
    \A f \in Forms : (inflightLoads[f] # {} \/ inflightSaves[f] > 0) => isLoading[f]

\* C28 - forceErrorDisplay is monotone: it is false at construction, becomes true at a
\* save() call only, and no step resets it.
ForceErrorDisplayMonotone ==
    [][\A f \in Forms :
        /\ last.op = "init" => ~forceErrorDisplay[f]
        /\ forceErrorDisplay[f] => forceErrorDisplay'[f]
        /\ (~forceErrorDisplay[f] /\ forceErrorDisplay'[f]) =>
              (last'.op = "save" /\ last'.f = f)]_vars

\* A cancel on a form whose save() was called and has nothing in flight any more, its
\* source node holding a value for every field: the errors are still forced.
ForceErrorDisplayMonotoneWitness ==
    /\ last.op = "toggleEdit(false)"
    /\ forceErrorDisplay[last.f]
    /\ inflightSaves[last.f] = 0
    /\ ~isLoading[last.f]
    /\ \A k \in Fields : source[last.f][k] # Undef

\* C29 (as stated) - No activity after unmount: the settling of a load or save of an
\* unmounted form fires no hook and writes neither the source node nor the edit flag.
QuietAfterUnmount ==
    [][\A f \in Forms :
        (/\ lifecycle[f] = "unmounted" /\ last'.f = f
         /\ last'.op \in {"loadResolved", "loadRejected", "saveResolved", "saveRejected"}) =>
            /\ Count(last'.calls, "onFormLoaded") = 0
            /\ Count(last'.calls, "onFormSaved") = 0
            /\ source'[f] = source[f]
            /\ isEdit'[f] = isEdit[f]]_vars

\* C29 (amended) - After unmount the form has no registry entry and its form entity is
\* no longer updated, but a load or save started before the unmount that resolves
\* afterwards still sets its data onto the source node, resets isLoading (and, for a
\* save, the edit flag) and fires its hook once.
SettleAfterUnmount ==
    [][\A f \in Forms :
        (/\ lifecycle[f] = "unmounted" /\ last'.f = f
         /\ last'.op \in {"loadResolved", "saveResolved"}) =>
            /\ f \notin DOMAIN editingMap'
            /\ entity'[f] = entity[f]
            /\ source'[f] = SetNode(source[f], last'.recv[1])
            /\ ~isLoading'[f]
            /\ last'.op = "saveResolved" => ~isEdit'[f]
            /\ Len(last'.seen) = 1
            /\ last'.calls = <<"sourceNode.set",
                               IF last'.op = "loadResolved" THEN "onFormLoaded"
                                                            ELSE "onFormSaved">>]_vars

\* A load resolved on an unmounted form with a value for every field: the hook ran,
\* the source node holds the data and the form entity does not.
SettleAfterUnmountWitness ==
    /\ last.op = "loadResolved"
    /\ lifecycle[last.f] = "unmounted"
    /\ Len(last.seen) = 1
    /\ DOMAIN last.recv[1] = Fields
    /\ source[last.f] = last.recv[1]
    /\ toFlatValues(entity[last.f]) # source[last.f]

\* C30 - toggleEdit never touches the source or the loading state: a toggleEdit step,
\* entering or leaving edit mode, with or without calls in flight, leaves the source
\* node and isLoading as they were and calls no service.
ToggleEditFrame ==
    [][\A f \in Forms :
        (last'.op \in {"toggleEdit(true)", "toggleEdit(false)"} /\ last'.f = f) =>
            /\ source'[f] = source[f]
            /\ isLoading'[f] = isLoading[f]
            /\ inflightLoads'[f] = inflightLoads[f]
            /\ inflightSaves'[f] = inflightSaves[f]
            /\ inflightDeletes'[f] = inflightDeletes[f]
            /\ loadCount'[f] = loadCount[f]
            /\ \A i \in 1..Len(last'.calls) : last'.calls[i] = "entity.reset"]_vars

\* A cancel while a load is in flight on a form whose source node was written during
\* the load: isLoading is still true and the value is still there.
ToggleEditFrameWitness ==
    /\ last.op = "toggleEdit(false)"
    /\ isLoading[last.f]
    /\ inflightLoads[last.f] # {}
    /\ inflightSaves[last.f] = 0
    /\ \E k \in Fields : source[last.f][k] # Undef

\* C22 - delete() success path: with a delete service, delete() sets isLoading and
\* calls the service once with the flattened values of the form entity, and the
\* resolution resets isLoading, clears the source node and fires onFormDeleted once;
\* without a delete service, delete() changes nothing and fires no hook.
DeleteSuccess ==
    [][\A f \in Forms :
        /\ (last'.op = "delete" /\ last'.f = f /\ Services(f).delete) =>
              /\ isLoading'[f]
              /\ last'.calls = <<"delete", "services.delete">>
              /\ last'.sent = <<toFlatValues(entity[f])>>
              /\ inflightDeletes'[f] = inflightDeletes[f] + 1
        /\ (last'.op = "deleteResolved" /\ last'.f = f) =>
              /\ ~isLoading'[f]
              /\ source'[f] = ClearNode(source[f])
              /\ Count(last'.calls, "storeData.clear") = 1
              /\ Count(last'.calls, "onFormDeleted") = 1
              /\ Len(last'.seen) = 1
        /\ (last'.op = "delete" /\ last'.f = f /\ ~Services(f).delete) =>
              /\ last'.calls = <<"delete">> /\ last'.seen = <<>>
              /\ Get(f)' = Get(f)]_vars

\* The delete of a form whose source node held a value resolved: the source node is
\* empty, isLoading is false and the hook saw both.
DeleteSuccessWitness ==
    /\ last.op = "deleteResolved"
    /\ \E k \in Fields : last.prior[1][k] # Undef
    /\ source[last.f] = ClearNode(source[last.f])
    /\ ~isLoading[last.f]
    /\ last.seen = <<Snapshot(Get(last.f), "onFormDeleted")>>

\* C23 - delete() failure follows the save pattern: when the delete service rejects,
\* isLoading is reset to false, the source node is not cleared and onFormDeleted is
\* not fired.
DeleteFailureRecovery ==
    last.op = "deleteRejected" =>
        /\ ~isLoading[last.f]
        /\ source[last.f] = last.prior[1]
        /\ Count(last.calls, "onFormDeleted") = 0
====
